---- MODULE Spec2Model ----
(***************************************************************************)
(* User-level IPC library of JOS (lib/ipc.c): ipc_send and ipc_recv, run   *)
(* by a small set of environments over the kernel's single-slot mailbox.   *)
(* The kernel side of the two system calls (sys_ipc_try_send and           *)
(* sys_ipc_recv) is modelled from the design document; the library         *)
(* routines are modelled statement by statement from lib/ipc.c.            *)
(***************************************************************************)
EXTENDS Integers, Sequences, FiniteSets, TLC

\* ------------------------------------------------------------------ bounds
\* Delivery attempts one ipc_send call may make before the model stops
\* scheduling further attempts of that call.
MaxTries == 2
\* Library calls (ipc_send or ipc_recv) started over a whole run.
MaxCalls == 3

\* --------------------------------------------------------------- constants
\* Environments of the system (their envids; 0 is no environment).
Envs == {1, 2, 3}
\* An envid that names no environment.
BadEnvId == 9

\* The machine word. TLC's integers are 32-bit signed, so the 32-bit word of
\* the target is narrowed to 16 bits and every address is scaled with it:
\* 0xffffffff becomes 0xffff, UTOP 0xeec00000 becomes 0xeec0, a page 16 bytes.
\* The sign bit is the top bit, as on the target.
Word == 2 ^ 16
SignBit == Word \div 2
\* The "no page" value both routines pass when pg is NULL (all ones).
NoPage == Word - 1
PGSIZE == 2 ^ 4
\* Top of the user address space: an address at or above it means "no page".
UTOP == 3820 * PGSIZE
NULL == 0

\* Error codes (returned negated).
E_BAD_ENV == 2
E_INVAL == 3
E_NO_MEM == 4
E_IPC_NOT_RECV == 7

\* Page permissions: present|user, and present|user|writable.
PermRO == 5
PermRW == 7

\* The page every environment owns, the window it may receive pages at, and
\* an address that is not page-aligned.
SrcVa == 128 * PGSIZE
DstVa == 129 * PGSIZE
OddVa == DstVa + 4

\* The environments whose program calls ipc_send, and those whose program
\* calls ipc_recv (environment 2 does both).
Senders == {1, 2}
Receivers == {2, 3}

\* The (val, pg, perm) a sender passes: each word without a page, a word
\* without a page but with a permission, its own page with each permission,
\* and an address that is not page-aligned.
SendPayloads == {<<1, NULL, 0>>, <<Word - 1, NULL, 0>>, <<1, NULL, PermRW>>,
                 <<Word - 1, SrcVa, PermRW>>, <<1, SrcVa, PermRO>>,
                 <<1, OddVa, PermRW>>}
\* The arguments of the ipc_send calls environment e makes.
SendArgs(e) ==
  {[to |-> q, val |-> p[1], pg |-> p[2], perm |-> p[3]] :
      q \in Receivers \ {e}, p \in SendPayloads}
  \cup {[to |-> BadEnvId, val |-> 1, pg |-> NULL, perm |-> 0]}
\* The arguments of the ipc_recv calls: each destination with both stores,
\* the valid destinations with one store each, and the invalid one with none.
RecvArgs ==
  {[pg |-> g, fs |-> TRUE, ps |-> TRUE] : g \in {NULL, DstVa, OddVa}}
  \cup {[pg |-> NULL, fs |-> TRUE, ps |-> FALSE], [pg |-> DstVa, fs |-> FALSE, ps |-> TRUE],
        [pg |-> OddVa, fs |-> FALSE, ps |-> FALSE]}

\* The permission each environment holds on its own page at SrcVa.
OwnPerm(e) == IF e = 2 THEN PermRO ELSE PermRW

\* The user addresses whose mappings the model follows; address 0 is one of
\* them, a valid place to map a page.
UserVas == {NULL, SrcVa, DstVa}
NoMapping == [pp |-> 0, perm |-> 0]
NoDelivery == [from |-> 0, val |-> 0, pg |-> 0, perm |-> 0]

\* A uint32_t read as an int32_t, and back.
ToInt32(w) == IF w >= SignBit THEN w - Word ELSE w
ToUint32(i) == i % Word

VARIABLES
  pc,              \* where each environment is in its library call
  sargs,           \* ipc_send's arguments: to_env, val, pg, perm
  rargs,           \* ipc_recv's arguments: pg, and whether the stores are non-null
  r,               \* the local r of the running routine
  ntry,            \* sys_ipc_try_send calls made by the current ipc_send
  nyield,          \* sys_yield calls made by the current ipc_send
  nnotrecv,        \* -E_IPC_NOT_RECV results the current ipc_send has had
  retval,          \* ipc_recv's return value
  from_env_store,  \* <<x>> once *from_env_store was written, else <<>>
  perm_store,      \* <<x>> once *perm_store was written, else <<>>
  env_status,      \* "runnable", "not_runnable" (suspended in receive), "free"
  env_ipc_recving,
  env_ipc_from,
  env_ipc_value,
  env_ipc_dstva,
  env_ipc_perm,
  pgdir,           \* the mapping at each followed address of each address space
  delivered,       \* history: the ipc_send that filled each mailbox since its last post
  ndeliv,          \* history: deliveries into each mailbox since its last post
  nsent,           \* history: deliveries the current ipc_send call has made
  nrecv,           \* history: ipc_recv calls each environment has made since its
                   \* last ipc_recv that returned a message
  sysargs,         \* history: the arguments of each environment's last system call
  ncalls,          \* library calls started so far
  mon,             \* where the monitor is in mon_backtrace
  ebp,             \* mon_backtrace's local ebp
  eip,             \* mon_backtrace's local eip
  out,             \* the descriptors printed by the current mon_backtrace
  mem,             \* the words of the kernel stack
  known,           \* the code addresses the debug-info resolver can resolve
  ebp0,            \* what read_ebp() returned to the current mon_backtrace
  prev             \* history: start and output of the previous mon_backtrace

ipcvars == <<pc, sargs, rargs, r, ntry, nyield, nnotrecv, retval, from_env_store,
          perm_store, env_status, env_ipc_recving, env_ipc_from, env_ipc_value,
          env_ipc_dstva, env_ipc_perm, pgdir, delivered, ndeliv, nsent, nrecv,
          sysargs, ncalls>>
btvars == <<mon, ebp, eip, out, mem, known, ebp0, prev>>
vars == <<ipcvars, btvars>>

kernel == <<env_status, env_ipc_recving, env_ipc_from, env_ipc_value,
            env_ipc_dstva, env_ipc_perm, pgdir>>
recvout == <<retval, from_env_store, perm_store>>
sendcnt == <<ntry, nyield, nnotrecv, nsent>>

NoSend == [to |-> 0, val |-> 0, pg |-> 0, perm |-> 0]
NoRecv == [pg |-> 0, fs |-> FALSE, ps |-> FALSE]
NoSyscall == [name |-> "none", to |-> 0, val |-> 0, va |-> 0, perm |-> 0]

IpcInit ==
  /\ pc = [e \in Envs |-> "start"]
  /\ sargs = [e \in Envs |-> NoSend]
  /\ rargs = [e \in Envs |-> NoRecv]
  /\ r = [e \in Envs |-> 0]
  /\ ntry = [e \in Envs |-> 0]
  /\ nyield = [e \in Envs |-> 0]
  /\ nnotrecv = [e \in Envs |-> 0]
  /\ retval = [e \in Envs |-> 0]
  /\ from_env_store = [e \in Envs |-> <<>>]
  /\ perm_store = [e \in Envs |-> <<>>]
  /\ env_status = [e \in Envs |-> "runnable"]
  /\ env_ipc_recving = [e \in Envs |-> FALSE]
  /\ env_ipc_from = [e \in Envs |-> 0]
  /\ env_ipc_value = [e \in Envs |-> 0]
  /\ env_ipc_dstva = [e \in Envs |-> 0]
  /\ env_ipc_perm = [e \in Envs |-> 0]
  /\ pgdir = [e \in Envs |-> [va \in UserVas |->
                IF va = SrcVa THEN [pp |-> e, perm |-> OwnPerm(e)] ELSE NoMapping]]
  /\ delivered = [e \in Envs |-> NoDelivery]
  /\ ndeliv = [e \in Envs |-> 0]
  /\ nsent = [e \in Envs |-> 0]
  /\ nrecv = [e \in Envs |-> 0]
  /\ sysargs = [e \in Envs |-> NoSyscall]
  /\ ncalls = 0

\* ----------------------------------------------------------- kernel stack
\* The stack holds three frames.  A frame at address f keeps the caller's
\* frame pointer at f, the return address at f + 4 and the argument words
\* from f + 8 on; the argument words of one frame run into the next frame.
\* A saved frame pointer is 0 or the address of any frame, so the chains
\* include well-formed ones of depth 0 to 3 and malformed, cyclic ones.
MaxOut == 4

FrameAddrs == {32, 48, 80}
StackCells == {a \in 32 .. 104 : a % 4 = 0}
RetAddrs == {1000, 2020}
Fill(a) == 4096 + a

MkStack(link, ret) ==
  [a \in StackCells |->
     IF a \in FrameAddrs THEN link[a]
     ELSE IF (a - 4) \in FrameAddrs THEN ret[a - 4]
     ELSE Fill(a)]

StackImages ==
  {MkStack(link, ret) : link \in [FrameAddrs -> FrameAddrs \cup {0}],
                        ret \in [FrameAddrs -> RetAddrs]}

\* What read_eip() returns to mon_backtrace: an address inside mon_backtrace.
CallerPc == 3000

NoRun == [ran |-> FALSE, start |-> 0, out |-> <<>>]

\* The monitor is not running a backtrace.
BtOff ==
  /\ mon = "idle"
  /\ ebp = 0
  /\ eip = 0
  /\ out = <<>>
  /\ mem = [a \in StackCells |-> 0]
  /\ known = {}
  /\ ebp0 = 0
  /\ prev = NoRun

Init == IpcInit /\ BtOff

\* The monitor is about to run backtraces over some stack, with some resolver.
BtInit ==
  /\ IpcInit
  /\ mon = "idle"
  /\ ebp = 0
  /\ eip = 0
  /\ out = <<>>
  /\ mem \in StackImages
  /\ known \in SUBSET RetAddrs
  /\ ebp0 = 0
  /\ prev = NoRun

\* An environment between two library calls.
Idle(e) == pc[e] \in {"start", "send_done", "recv_done"}

\* ------------------------------------------------------- kernel (mailbox)
\* The mapping of address va in e's address space.
Lookup(e, va) == IF va \in UserVas THEN pgdir[e][va] ELSE NoMapping

\* tryDeliver's verdict on the page a sender offers: 0, or the error.
SrcPageCheck(s, srcva, perm) ==
  IF srcva >= UTOP THEN 0
  ELSE IF srcva % PGSIZE # 0 THEN -E_INVAL
  ELSE IF perm \notin {PermRO, PermRW} THEN -E_INVAL
  ELSE IF Lookup(s, srcva).pp = 0 THEN -E_INVAL
  ELSE IF perm = PermRW /\ Lookup(s, srcva).perm # PermRW THEN -E_INVAL
  ELSE 0

\* The results tryDeliver may give sender s for (to, srcva, perm).
TrySendResults(s, to, srcva, perm) ==
  IF to \notin Envs \/ env_status[to] = "free" THEN {-E_BAD_ENV}
  ELSE IF ~env_ipc_recving[to] THEN {-E_IPC_NOT_RECV}
  ELSE IF SrcPageCheck(s, srcva, perm) < 0 THEN {SrcPageCheck(s, srcva, perm)}
  ELSE IF srcva < UTOP /\ env_ipc_dstva[to] < UTOP THEN {0, -E_NO_MEM}
  ELSE {0}

\* The mailbox after a successful delivery by s.
Deliver(s, to, val, srcva, perm) ==
  LET page == srcva < UTOP /\ env_ipc_dstva[to] < UTOP IN
  /\ pgdir' = IF page
              THEN [pgdir EXCEPT ![to][env_ipc_dstva[to]] =
                      [pp |-> Lookup(s, srcva).pp, perm |-> perm]]
              ELSE pgdir
  /\ env_ipc_perm' = [env_ipc_perm EXCEPT ![to] = IF page THEN perm ELSE 0]
  /\ env_ipc_recving' = [env_ipc_recving EXCEPT ![to] = FALSE]
  /\ env_ipc_from' = [env_ipc_from EXCEPT ![to] = s]
  /\ env_ipc_value' = [env_ipc_value EXCEPT ![to] = val]
  /\ env_status' = [env_status EXCEPT ![to] = "runnable"]
  /\ env_ipc_dstva' = env_ipc_dstva

\* sys_ipc_try_send by s with result res.
sys_ipc_try_send(s, to, val, srcva, perm, res) ==
  /\ res \in TrySendResults(s, to, srcva, perm)
  /\ IF res = 0 THEN Deliver(s, to, val, srcva, perm) ELSE UNCHANGED kernel

\* postReceive's validation of the destination.
RecvCheck(dstva) == IF dstva < UTOP /\ dstva % PGSIZE # 0 THEN -E_INVAL ELSE 0

\* sys_ipc_recv by e: posts the receive and suspends e, or fails at once.
sys_ipc_recv(e, dstva) ==
  IF RecvCheck(dstva) < 0
  THEN UNCHANGED kernel
  ELSE /\ env_ipc_recving' = [env_ipc_recving EXCEPT ![e] = TRUE]
       /\ env_ipc_dstva' = [env_ipc_dstva EXCEPT ![e] = dstva]
       /\ env_ipc_from' = [env_ipc_from EXCEPT ![e] = 0]
       /\ env_ipc_value' = [env_ipc_value EXCEPT ![e] = 0]
       /\ env_ipc_perm' = [env_ipc_perm EXCEPT ![e] = 0]
       /\ env_status' = [env_status EXCEPT ![e] = "not_runnable"]
       /\ pgdir' = pgdir

\* ---------------------------------------------------------------- ipc_send
\* Lines 26-29 and 58-61: the page argument the library hands to the kernel.
PageArgUnchanged(pg) == pg
PageArg(pg) == IF pg = NULL THEN NoPage ELSE pg

\* Lines 58-61: one delivery attempt of ipc_send(a.to, a.val, a.pg, a.perm).
SendAttempt(e, a) ==
  /\ \E res \in {0, -E_BAD_ENV, -E_INVAL, -E_NO_MEM, -E_IPC_NOT_RECV} :
       /\ sys_ipc_try_send(e, a.to, a.val, PageArg(a.pg), a.perm, res)
       /\ r' = [r EXCEPT ![e] = res]
       /\ IF res = 0
          THEN /\ delivered' = [delivered EXCEPT ![a.to] =
                     [from |-> e, val |-> a.val, pg |-> a.pg, perm |-> a.perm]]
               /\ ndeliv' = [ndeliv EXCEPT ![a.to] = @ + 1]
          ELSE UNCHANGED <<delivered, ndeliv>>
  /\ sysargs' = [sysargs EXCEPT ![e] =
                   [name |-> "sys_ipc_try_send", to |-> a.to, val |-> a.val,
                    va |-> PageArg(a.pg), perm |-> a.perm]]
  /\ pc' = [pc EXCEPT ![e] = "send_yield"]

\* A caller enters ipc_send(to_env, val, pg, perm) and makes the first attempt.
CallSend(e) ==
  /\ e \in Senders
  /\ Idle(e)
  /\ ncalls < MaxCalls
  /\ \E a \in SendArgs(e) :
       /\ sargs' = [sargs EXCEPT ![e] = a]
       /\ SendAttempt(e, a)
  /\ ntry' = [ntry EXCEPT ![e] = 1]
  /\ nyield' = [nyield EXCEPT ![e] = 0]
  /\ nnotrecv' = [nnotrecv EXCEPT ![e] = IF r'[e] = -E_IPC_NOT_RECV THEN 1 ELSE 0]
  /\ nsent' = [nsent EXCEPT ![e] = IF r'[e] = 0 THEN 1 ELSE 0]
  /\ ncalls' = ncalls + 1
  /\ nrecv' = [nrecv EXCEPT ![e] = IF pc[e] = "recv_done" /\ r[e] = 0 THEN 0 ELSE @]
  /\ rargs' = [rargs EXCEPT ![e] = NoRecv]
  /\ retval' = [retval EXCEPT ![e] = 0]
  /\ from_env_store' = [from_env_store EXCEPT ![e] = <<>>]
  /\ perm_store' = [perm_store EXCEPT ![e] = <<>>]
  /\ UNCHANGED btvars

\* The loop body runs again: another delivery attempt.
SendTry(e) ==
  /\ pc[e] = "send_try"
  /\ ntry[e] < MaxTries
  /\ SendAttempt(e, sargs[e])
  /\ ntry' = [ntry EXCEPT ![e] = @ + 1]
  /\ nnotrecv' = [nnotrecv EXCEPT ![e] = IF r'[e] = -E_IPC_NOT_RECV THEN @ + 1 ELSE @]
  /\ nsent' = [nsent EXCEPT ![e] = IF r'[e] = 0 THEN @ + 1 ELSE @]
  /\ UNCHANGED <<sargs, rargs, nyield, recvout, nrecv, ncalls, btvars>>

\* Line 62: the sys_yield calls made after an attempt whose result is res.
YieldsAfterOnlyNotRecv(res) == IF res = -E_IPC_NOT_RECV THEN 1 ELSE 0
YieldsAfter(res) == 1

\* Line 63: the loop goes round again.
SendAgainNever(res) == FALSE
SendAgain(res) == res = -E_IPC_NOT_RECV

\* Line 65: the result that makes ipc_send panic.
SendFatalNever(res) == FALSE
SendFatal(res) == res < 0

\* Lines 63-66: the loop test and the two ways out of ipc_send.
SendLoopTest(e) ==
  IF SendAgain(r[e])
  THEN /\ pc' = [pc EXCEPT ![e] = "send_try"]
       /\ UNCHANGED env_status
  ELSE IF SendFatal(r[e])
  THEN /\ pc' = [pc EXCEPT ![e] = "panicked"]
       /\ env_status' = [env_status EXCEPT ![e] = "free"]
  ELSE /\ pc' = [pc EXCEPT ![e] = "send_done"]
       /\ UNCHANGED env_status

\* Lines 62-66: the yield after the attempt, the loop test, and the exit.
SendYield(e) ==
  /\ pc[e] = "send_yield"
  /\ nyield' = [nyield EXCEPT ![e] = @ + YieldsAfter(r[e])]
  /\ SendLoopTest(e)
  /\ UNCHANGED <<sargs, rargs, r, ntry, nnotrecv, nsent, recvout, env_ipc_recving,
                 env_ipc_from, env_ipc_value, env_ipc_dstva, env_ipc_perm, pgdir,
                 delivered, ndeliv, nrecv, sysargs, ncalls, btvars>>

\* ---------------------------------------------------------------- ipc_recv
\* Lines 26-29: a caller enters ipc_recv and makes the system call.
RecvCall(e) ==
  /\ e \in Receivers
  /\ Idle(e)
  /\ ncalls < MaxCalls
  /\ \E a \in RecvArgs :
       /\ rargs' = [rargs EXCEPT ![e] = a]
       /\ sys_ipc_recv(e, PageArg(a.pg))
       /\ r' = [r EXCEPT ![e] = RecvCheck(PageArg(a.pg))]
       /\ sysargs' = [sysargs EXCEPT ![e] =
                        [name |-> "sys_ipc_recv", to |-> 0, val |-> 0,
                         va |-> PageArg(a.pg), perm |-> 0]]
  /\ nrecv' = [nrecv EXCEPT ![e] = IF pc[e] = "recv_done" /\ r[e] = 0 THEN 1 ELSE @ + 1]
  /\ IF r'[e] = 0
     THEN /\ delivered' = [delivered EXCEPT ![e] = NoDelivery]
          /\ ndeliv' = [ndeliv EXCEPT ![e] = 0]
     ELSE UNCHANGED <<delivered, ndeliv>>
  /\ pc' = [pc EXCEPT ![e] = "recv_ret"]
  /\ retval' = [retval EXCEPT ![e] = 0]
  /\ from_env_store' = [from_env_store EXCEPT ![e] = <<>>]
  /\ perm_store' = [perm_store EXCEPT ![e] = <<>>]
  /\ ncalls' = ncalls + 1
  /\ sargs' = [sargs EXCEPT ![e] = NoSend]
  /\ ntry' = [ntry EXCEPT ![e] = 0]
  /\ nyield' = [nyield EXCEPT ![e] = 0]
  /\ nnotrecv' = [nnotrecv EXCEPT ![e] = 0]
  /\ nsent' = [nsent EXCEPT ![e] = 0]
  /\ UNCHANGED btvars

\* Line 31: the system call failed.
RecvFailedNever(res) == FALSE
RecvFailed(res) == res < 0

\* Line 39: what is stored in *from_env_store on success.
RecvFromSelf(e) == e
RecvFrom(e) == env_ipc_from[e]

\* Line 41: what is stored in *perm_store on success.
RecvPermFromSender(e) == env_ipc_from[e]
RecvPerm(e) == env_ipc_perm[e]

\* Line 42: the value returned on success, a uint32_t returned as int32_t.
RecvValueIsR(e) == r[e]
RecvValue(e) == ToInt32(env_ipc_value[e])

\* Lines 31-42: the system call has returned to a runnable caller.
RecvRet(e) ==
  /\ pc[e] = "recv_ret"
  /\ env_status[e] = "runnable"
  /\ IF RecvFailed(r[e])
     THEN /\ from_env_store' = [from_env_store EXCEPT ![e] =
                                  IF rargs[e].fs THEN <<0>> ELSE <<>>]
          /\ perm_store' = [perm_store EXCEPT ![e] =
                              IF rargs[e].ps THEN <<0>> ELSE <<>>]
          /\ retval' = [retval EXCEPT ![e] = r[e]]
     ELSE /\ from_env_store' = [from_env_store EXCEPT ![e] =
                                  IF rargs[e].fs THEN <<RecvFrom(e)>> ELSE <<>>]
          /\ perm_store' = [perm_store EXCEPT ![e] =
                              IF rargs[e].ps THEN <<RecvPerm(e)>> ELSE <<>>]
          /\ retval' = [retval EXCEPT ![e] = RecvValue(e)]
  /\ pc' = [pc EXCEPT ![e] = "recv_done"]
  /\ UNCHANGED <<sargs, rargs, r, sendcnt, kernel, delivered, ndeliv, nrecv,
                 sysargs, ncalls, btvars>>

Next ==
  \E e \in Envs :
    \/ CallSend(e)
    \/ SendTry(e)
    \/ SendYield(e)
    \/ RecvCall(e)
    \/ RecvRet(e)

Spec == Init /\ [][Next]_vars

\* ------------------------------------------------- the loop under fairness
\* ipc_send has no bound on its attempts.  To follow a sender round the loop
\* for ever in a finite state space, the history counters stop at MaxTries
\* and the calls carry no page.
Saturate(n) == IF n < MaxTries THEN n + 1 ELSE n

LiveSendArgs(e) ==
  {[to |-> t, val |-> v, pg |-> NULL, perm |-> 0] :
     t \in (Receivers \ {e}) \cup {BadEnvId}, v \in {1, Word - 1}}

LiveRecvArgs == {[pg |-> g, fs |-> TRUE, ps |-> TRUE] : g \in {NULL, OddVa}}

LiveCallSend(e) == CallSend(e) /\ sargs'[e] \in LiveSendArgs(e)

LiveRecvCall(e) == RecvCall(e) /\ rargs'[e] \in LiveRecvArgs

\* Lines 57-61: the loop body runs again, however often it has run.
LiveSendTry(e) ==
  /\ pc[e] = "send_try"
  /\ SendAttempt(e, sargs[e])
  /\ ntry' = [ntry EXCEPT ![e] = Saturate(@)]
  /\ nnotrecv' = [nnotrecv EXCEPT ![e] =
                    IF r'[e] = -E_IPC_NOT_RECV THEN Saturate(@) ELSE @]
  /\ nsent' = [nsent EXCEPT ![e] = IF r'[e] = 0 THEN 1 ELSE @]
  /\ UNCHANGED <<sargs, rargs, nyield, recvout, nrecv, ncalls, btvars>>

\* Lines 62-66: sys_yield returns, then the loop test and the exit.
LiveSendYield(e) ==
  /\ pc[e] = "send_yield"
  /\ nyield' = [nyield EXCEPT ![e] = IF YieldsAfter(r[e]) = 1 THEN Saturate(@) ELSE @]
  /\ SendLoopTest(e)
  /\ UNCHANGED <<sargs, rargs, r, ntry, nnotrecv, nsent, recvout, env_ipc_recving,
                 env_ipc_from, env_ipc_value, env_ipc_dstva, env_ipc_perm, pgdir,
                 delivered, ndeliv, nrecv, sysargs, ncalls, btvars>>

LiveNext ==
  \E e \in Envs :
    \/ LiveCallSend(e)
    \/ LiveSendTry(e)
    \/ LiveSendYield(e)
    \/ LiveRecvCall(e)
    \/ RecvRet(e)

\* The scheduler is fair to an environment inside a library call: sys_yield
\* returns, and a runnable environment runs on.  Whether an environment makes
\* another call is its own choice and is under no fairness.
Fairness ==
  \A e \in Envs :
    /\ WF_vars(LiveSendTry(e))
    /\ WF_vars(LiveSendYield(e))
    /\ WF_vars(RecvRet(e))

LiveSpec == Init /\ [][LiveNext]_vars /\ Fairness

\* ------------------------------------------------------------ mon_backtrace
\* The debug-info resolver: what debuginfo_eip(addr, &info) returns and leaves
\* in info.  An address it cannot resolve leaves the placeholder.
debuginfo_eip(addr) ==
  IF addr \in known
  THEN [res |-> 0, eip_file |-> "kern/init.c", eip_line |-> 1 + (addr % 64),
        eip_fn_name |-> "i386_init", eip_fn_addr |-> addr - (addr % 64)]
  ELSE [res |-> -1, eip_file |-> "<unknown>", eip_line |-> 0,
        eip_fn_name |-> "<unknown>", eip_fn_addr |-> addr]

\* Line 71: the frame pointer the walk starts from.
EntryEbpResumed(start) == IF mon = "done" THEN ebp ELSE start
EntryEbp(start) == start

\* Line 75: the loop condition.
WalkingWhileCaller(f) == f # 0 /\ mem[f] # 0
Walking(f) == f # 0

\* Line 76: the return address of the frame at f.
ReturnAddressCaptured(f) == eip
ReturnAddress(f) == mem[f + 4]

\* Line 79: argument word i (0 to 4) of the frame at f.
ArgWordFromRet(f, i) == mem[f + 4 + 4 * i]
ArgWord(f, i) == mem[f + 8 + 4 * i]

\* Line 92: the caller's frame; the resolver's result plays no part.
NextFrameStopOnUnknown(f, info) == IF info.res < 0 THEN 0 ELSE mem[f]
NextFrame(f, info) == mem[f]

\* Lines 77-89: the two lines printed for one frame.
Descriptor(f, ra, info) ==
  [ebp |-> f, eip |-> ra, args |-> [i \in 1 .. 5 |-> ArgWord(f, i - 1)],
   file |-> info.eip_file, line |-> info.eip_line, fn |-> info.eip_fn_name,
   off |-> (ra - info.eip_fn_addr) % Word]

\* Lines 67-74: the monitor calls mon_backtrace.
mon_backtrace ==
  /\ mon \in {"idle", "done"}
  /\ \E start \in FrameAddrs \cup {0} :
       /\ ebp0' = start
       /\ ebp' = EntryEbp(start)
  /\ eip' = CallerPc
  /\ out' = <<>>
  /\ prev' = IF mon = "done" THEN [ran |-> TRUE, start |-> ebp0, out |-> out] ELSE NoRun
  /\ mon' = "loop"
  /\ UNCHANGED <<mem, known, ipcvars>>

\* Lines 75-92: one turn of the loop.
BacktraceFrame ==
  /\ mon = "loop"
  /\ Walking(ebp)
  /\ Len(out) < MaxOut
  /\ LET ra == ReturnAddress(ebp)
         info == debuginfo_eip(ra)
     IN /\ eip' = ra
        /\ out' = Append(out, Descriptor(ebp, ra, info))
        /\ ebp' = NextFrame(ebp, info)
  /\ UNCHANGED <<mon, mem, known, ebp0, prev, ipcvars>>

\* Lines 75 and 95: the loop condition fails and mon_backtrace returns 0.
BacktraceReturn ==
  /\ mon = "loop"
  /\ ~Walking(ebp)
  /\ mon' = "done"
  /\ UNCHANGED <<ebp, eip, out, mem, known, ebp0, prev, ipcvars>>

BtNext == mon_backtrace \/ BacktraceFrame \/ BacktraceReturn

BtSpec == BtInit /\ [][BtNext]_vars

\* mon_backtrace runs with nothing to wait for: its loop goes on.
BtFairSpec == BtSpec /\ WF_vars(BacktraceFrame) /\ WF_vars(BacktraceReturn)

\* ------------------------------------------------------------------ claims
\* An environment inside, or just out of, an ipc_send call.
InSend(e) == pc[e] \in {"send_try", "send_yield", "send_done", "panicked"}
\* A result of the transfer call other than success and NotReceiving.
FatalResult(res) == res < 0 /\ res # -E_IPC_NOT_RECV

\* C1 as stated: when the transfer call returned NotReceiving exactly N times
\* and then Success, ipc_send has called sys_yield exactly N times when it
\* returns.
C1_YieldsEqualNotReceiving ==
  \A e \in Envs :
    pc[e] = "send_done" => nyield[e] = nnotrecv[e] /\ ntry[e] = nnotrecv[e] + 1

\* C1 as amended: when the transfer call returned NotReceiving exactly N times
\* and then Success, ipc_send returns having made N + 1 attempts and no more,
\* and having called sys_yield N + 1 times: once after every attempt, the
\* successful one included.
C1_RetryTermination ==
  \A e \in Envs :
    pc[e] = "send_done" =>
      /\ r[e] = 0
      /\ ntry[e] = nnotrecv[e] + 1
      /\ nyield[e] = nnotrecv[e] + 1

\* An ipc_send has returned after at least one NotReceiving result.
C1_Witness ==
  \E e \in Envs : pc[e] = "send_done" /\ nnotrecv[e] >= 1 /\ nyield[e] >= 2

\* C2: ipc_send returns only with a non-negative last result, and while the
\* last result is NotReceiving it has neither returned nor panicked: it is at
\* the yield or about to make another attempt.
C2_ReturnsOnlyOnSuccess ==
  \A e \in Envs :
    /\ pc[e] = "send_done" => r[e] >= 0
    /\ r[e] = -E_IPC_NOT_RECV => pc[e] \in {"send_yield", "send_try"}

\* An ipc_send is about to retry after NotReceiving, and another has returned
\* after a retry.
C2_Witness ==
  /\ \E e \in Envs : pc[e] = "send_try" /\ r[e] = -E_IPC_NOT_RECV
  /\ \E e \in Envs : pc[e] = "send_done" /\ ntry[e] >= 2 /\ r[e] = 0

\* C3: once an attempt of ipc_send has returned an error other than
\* NotReceiving, ipc_send makes no further attempt and delivers nothing more,
\* and the only way it leaves the loop is the panic: it never returns.
C3_FatalErrorPanics ==
  [][\A e \in Envs :
       (InSend(e) /\ FatalResult(r[e])) =>
         /\ pc'[e] \in {"send_yield", "panicked"}
         /\ pc[e] = "panicked" => pc'[e] = "panicked"
         /\ ntry'[e] = ntry[e]
         /\ nsent'[e] = nsent[e]
         /\ r'[e] = r[e]]_vars

\* A sender has panicked after a fatal result of its last attempt.
C3_Witness ==
  \E e \in Envs : pc[e] = "panicked" /\ r[e] \in {-E_BAD_ENV, -E_INVAL, -E_NO_MEM}

\* An attempt of ipc_send by e returns in this step.
AttemptStep(e) == pc[e] # "send_yield" /\ pc'[e] = "send_yield"
\* ipc_recv has returned to q after a successful system call.
RecvOk(q) == pc[q] = "recv_done" /\ r[q] = 0

\* C4: an attempt of ipc_send succeeds only in a step that starts with the
\* target having posted a receive nothing has consumed yet, and it consumes
\* that receive; and ipc_send returns only after an attempt of this call
\* has so delivered.
C4_SendOnlyAfterReceive ==
  [][\A e \in Envs :
       /\ (AttemptStep(e) /\ r'[e] = 0) =>
            LET q == sargs'[e].to IN
            /\ q \in Envs
            /\ env_ipc_recving[q] /\ ndeliv[q] = 0
            /\ ~env_ipc_recving'[q] /\ ndeliv'[q] = 1
       /\ (pc[e] # "send_done" /\ pc'[e] = "send_done") => nsent[e] = 1]_vars

\* A send that first found its target not receiving has succeeded and
\* returned once the target had posted its receive.
C4_Witness ==
  \E e \in Envs :
    /\ pc[e] = "send_done" /\ nsent[e] = 1 /\ nnotrecv[e] >= 1
    /\ ndeliv[sargs[e].to] = 1 /\ delivered[sargs[e].to].from = e

\* What holds of mailbox q after every step, for C5.
C5_Mailbox(q) ==
  /\ ndeliv[q] <= 1
  /\ ndeliv[q] = 1 =>
       /\ ~env_ipc_recving[q]
       /\ env_ipc_from[q] = delivered[q].from
       /\ env_ipc_value[q] = delivered[q].val
  /\ RecvOk(q) =>
       /\ ndeliv[q] = 1
       /\ ToUint32(retval[q]) = delivered[q].val
       /\ rargs[q].fs => from_env_store[q] = <<delivered[q].from>>

\* C5: each posted receive is consumed by at most one sender; the delivery
\* clears the receiving flag, the receiver sees that sender's value and id,
\* and an attempt on a live target that is not receiving gets NotReceiving.
C5_ExactlyOnce ==
  [][/\ \A q \in Envs : C5_Mailbox(q)'
     /\ \A s \in Envs :
          LET q == sargs'[s].to IN
          (AttemptStep(s) /\ q \in Envs /\ env_status[q] # "free"
             /\ ~env_ipc_recving[q]) => r'[s] = -E_IPC_NOT_RECV]_vars

\* Two senders run ipc_send to environment 3 at once: one has delivered and
\* returned, the other has got NotReceiving since and is retrying.
C5_Witness ==
  \E s1, s2 \in Envs :
    /\ s1 # s2 /\ sargs[s1].to = 3 /\ sargs[s2].to = 3
    /\ pc[s1] = "send_done" /\ delivered[3].from = s1 /\ ndeliv[3] = 1
    /\ pc[s2] = "send_try" /\ r[s2] = -E_IPC_NOT_RECV
    /\ RecvOk(3) /\ from_env_store[3] = <<s1>>

\* C6: when ipc_send(q, v, NULL, 0) by p is received by q's ipc_recv(.., NULL, ..),
\* ipc_recv returns the word v (as an int32_t), stores p's id and stores
\* permission 0.
C6_RoundTrip ==
  \A q \in Envs :
    (RecvOk(q) /\ rargs[q].pg = NULL /\ delivered[q].from # 0
       /\ delivered[q].pg = NULL /\ delivered[q].perm = 0) =>
      /\ ToUint32(retval[q]) = delivered[q].val
      /\ rargs[q].fs => from_env_store[q] = <<delivered[q].from>>
      /\ rargs[q].ps => perm_store[q] = <<0>>

\* The largest word has made the round trip, with both stores supplied.
C6_Witness ==
  \E q \in Envs :
    /\ RecvOk(q) /\ rargs[q] = [pg |-> NULL, fs |-> TRUE, ps |-> TRUE]
    /\ delivered[q].pg = NULL /\ delivered[q].perm = 0
    /\ delivered[q].val = Word - 1 /\ retval[q] = -1
    /\ from_env_store[q] = <<delivered[q].from>> /\ perm_store[q] = <<0>>

\* A page went from the sender's pg to the receiver's pg in the delivery
\* into q.
PageTransferred(q) == delivered[q].pg # NULL /\ rargs[q].pg # NULL

\* What holds of receiver q after every step, for C7.
C7_Receiver(q) ==
  RecvOk(q) =>
    /\ rargs[q].ps => (perm_store[q] # <<0>> <=> PageTransferred(q))
    /\ env_ipc_perm[q] # 0 <=> PageTransferred(q)
    /\ PageTransferred(q) =>
         pgdir[q][rargs[q].pg] =
           [pp |-> pgdir[delivered[q].from][delivered[q].pg].pp,
            perm |-> env_ipc_perm[q]]
    /\ rargs[q].pg = NULL => ToUint32(retval[q]) = delivered[q].val

\* C7: the permission ipc_recv reports is nonzero exactly when a page was
\* mapped at the receiver's destination; a receive with NULL still gets the
\* value, reports 0, and no step changes an address space except a delivery
\* of a page to a posted destination below UTOP.
C7_PermBoundary ==
  [][/\ \A q \in Envs : C7_Receiver(q)'
     /\ \A q \in Envs :
          pgdir'[q] # pgdir[q] =>
            /\ env_ipc_recving[q] /\ env_ipc_dstva[q] = rargs[q].pg
            /\ rargs[q].pg # NULL
            /\ delivered'[q].pg # NULL
            /\ env_ipc_perm'[q] # 0]_vars

\* A receive with NULL has been sent a page with PermRW: the value arrived,
\* the permission reported is 0 and nothing is mapped in the receiver.
C7_Witness ==
  \E q \in Envs :
    /\ RecvOk(q) /\ rargs[q].pg = NULL /\ rargs[q].ps
    /\ delivered[q].pg = SrcVa /\ delivered[q].perm = PermRW
    /\ ToUint32(retval[q]) = delivered[q].val
    /\ perm_store[q] = <<0>>
    /\ pgdir[q][NULL] = NoMapping /\ pgdir[q][DstVa] = NoMapping

\* C8: when ipc_send(q, v, page, PermRW) is received by ipc_recv(.., addr, ..)
\* with addr a page-aligned address below UTOP, the sender's page is mapped
\* at addr in q with PermRW, ipc_recv returns v and reports PermRW, and the
\* sender's own mapping of the page is as it was.
C8_PageTransfer ==
  \A q \in Envs :
    (RecvOk(q) /\ rargs[q].pg = DstVa /\ delivered[q].pg = SrcVa
       /\ delivered[q].perm = PermRW) =>
      LET s == delivered[q].from IN
      /\ pgdir[q][DstVa] = [pp |-> s, perm |-> PermRW]
      /\ ToUint32(retval[q]) = delivered[q].val
      /\ rargs[q].ps => perm_store[q] = <<PermRW>>
      /\ pgdir[s][SrcVa] = [pp |-> s, perm |-> OwnPerm(s)]

\* A page has been transferred with PermRW and reported to the receiver.
C8_Witness ==
  \E q \in Envs :
    /\ RecvOk(q) /\ rargs[q].pg = DstVa /\ rargs[q].ps
    /\ delivered[q].pg = SrcVa /\ delivered[q].perm = PermRW
    /\ pgdir[q][DstVa] = [pp |-> delivered[q].from, perm |-> PermRW]
    /\ perm_store[q] = <<PermRW>>

\* What holds of environment e after every step, for C9.
C9_Failed(e) ==
  /\ (pc[e] \in {"recv_ret", "recv_done"} /\ rargs[e].pg = OddVa) => r[e] = -E_INVAL
  /\ (pc[e] \in {"recv_ret", "recv_done"} /\ r[e] < 0) =>
       /\ env_status[e] = "runnable"
       /\ ~env_ipc_recving[e]
  /\ (pc[e] = "recv_done" /\ r[e] < 0) =>
       /\ retval[e] = r[e]
       /\ from_env_store[e] = IF rargs[e].fs THEN <<0>> ELSE <<>>
       /\ perm_store[e] = IF rargs[e].ps THEN <<0>> ELSE <<>>

\* C9: ipc_recv with an invalid destination fails without suspending: the
\* failing system call changes nothing in the kernel (the caller stays
\* runnable and not receiving), ipc_recv returns the negative error and
\* stores 0 through the stores that are supplied.
C9_RecvValidationError ==
  [][\A e \in Envs :
       /\ C9_Failed(e)'
       /\ (pc[e] # "recv_ret" /\ pc'[e] = "recv_ret" /\ r'[e] < 0) =>
            UNCHANGED kernel]_vars

\* An ipc_recv with an unaligned destination has returned the error with
\* both stores zeroed, while a sender to it has got NotReceiving.
C9_Witness ==
  \E e, s \in Envs :
    /\ pc[e] = "recv_done" /\ rargs[e] = [pg |-> OddVa, fs |-> TRUE, ps |-> TRUE]
    /\ retval[e] = -E_INVAL
    /\ from_env_store[e] = <<0>> /\ perm_store[e] = <<0>>
    /\ sargs[s].to = e /\ r[s] = -E_IPC_NOT_RECV /\ pc[s] = "send_try"

\* C10: an environment that posted a receive stays suspended until a send
\* delivers into its mailbox; ipc_recv has returned either after exactly
\* that delivery, with the value delivered, or with the validation error.
C10_ResumeOnlyOnDelivery ==
  \A q \in Envs :
    /\ (pc[q] = "recv_ret" /\ r[q] = 0 /\ ndeliv[q] = 0) =>
         env_status[q] = "not_runnable" /\ env_ipc_recving[q]
    /\ pc[q] = "recv_done" =>
         \/ /\ r[q] = 0 /\ ndeliv[q] = 1 /\ ~env_ipc_recving[q]
            /\ retval[q] = ToInt32(delivered[q].val)
         \/ /\ r[q] = -E_INVAL /\ rargs[q].pg = OddVa
            /\ retval[q] = -E_INVAL

\* One receiver is still suspended with nothing delivered while another has
\* been resumed by a delivery.
C10_Witness ==
  \E q1, q2 \in Envs :
    /\ pc[q1] = "recv_ret" /\ env_status[q1] = "not_runnable" /\ ndeliv[q1] = 0
    /\ RecvOk(q2) /\ ndeliv[q2] = 1

\* The destination the kernel holds for the receive q has posted with pg.
PostedDst(pg) == IF pg = NULL THEN NoPage ELSE pg

\* What holds of mailbox q after every step, for C11.
C11_Slot(q) ==
  /\ ndeliv[q] <= 1
  /\ env_ipc_recving[q] =>
       /\ pc[q] = "recv_ret" /\ r[q] = 0 /\ ndeliv[q] = 0
       /\ env_status[q] = "not_runnable"
       /\ env_ipc_dstva[q] = PostedDst(rargs[q].pg)

C18_YieldPerAttempt ==
  \A e \in Envs :
    /\ pc[e] = "send_yield" => nyield[e] = ntry[e] - 1
    /\ pc[e] \in {"send_try", "send_done", "panicked"} => nyield[e] = ntry[e]
    /\ pc[e] \in {"send_done", "panicked"} =>
         /\ ntry[e] = nnotrecv[e] + 1
         /\ r[e] # -E_IPC_NOT_RECV
    /\ pc[e] \in {"send_try", "send_yield"} => ntry[e] <= nnotrecv[e] + 1

\* One ipc_send has panicked and one has returned, each after a NotReceiving
\* result, with as many yields as attempts.
C18_Witness ==
  /\ \E e \in Envs : pc[e] = "panicked" /\ nnotrecv[e] = 1 /\ nyield[e] = 2
  /\ \E e \in Envs : pc[e] = "send_done" /\ nnotrecv[e] = 1 /\ nyield[e] = 2

\* C20: the page address a library routine passes to the kernel is 0xffffffff
\* exactly when its pg is NULL and pg itself otherwise, so never 0; and every
\* attempt of ipc_send passes to_env, val and perm as the caller gave them.
C20_NoPageSentinel ==
  \A e \in Envs :
    /\ (pc[e] \in {"send_try", "send_yield", "send_done", "panicked"}) =>
         /\ sysargs[e].name = "sys_ipc_try_send"
         /\ sysargs[e].va = NoPage <=> sargs[e].pg = NULL
         /\ sargs[e].pg # NULL => sysargs[e].va = sargs[e].pg
         /\ sysargs[e].va # 0
         /\ sysargs[e].to = sargs[e].to
         /\ sysargs[e].val = sargs[e].val
         /\ sysargs[e].perm = sargs[e].perm
    /\ (pc[e] \in {"recv_ret", "recv_done"}) =>
         /\ sysargs[e].name = "sys_ipc_recv"
         /\ sysargs[e].va = NoPage <=> rargs[e].pg = NULL
         /\ rargs[e].pg # NULL => sysargs[e].va = rargs[e].pg
         /\ sysargs[e].va # 0

\* A retry of ipc_send with a NULL page and a nonzero perm has passed the
\* sentinel and the perm, while an ipc_recv with NULL has passed the sentinel.
C20_Witness ==
  /\ \E e \in Envs :
       /\ pc[e] = "send_yield" /\ ntry[e] = 2 /\ sargs[e].pg = NULL
       /\ sysargs[e].va = NoPage /\ sysargs[e].perm = PermRW
  /\ \E e \in Envs :
       pc[e] = "recv_ret" /\ rargs[e].pg = NULL /\ sysargs[e].va = NoPage

\* Sender s is in the loop of an ipc_send of v to t, and t has a receive posted.
C12_Pending(s, t) ==
  /\ pc[s] \in {"send_try", "send_yield"}
  /\ sargs[s].to = t
  /\ env_ipc_recving[t]

\* The ipc_send of s has returned, or a fatal error has ended it.
C12_Ended(s) == pc[s] \in {"send_done", "panicked"}

\* The receive t had posted has been consumed by a sender other than s.
C12_Taken(s, t) == ndeliv[t] = 1 /\ delivered[t].from \notin {0, s}

\* t is suspended in ipc_recv and s has delivered into its mailbox.
C12_Delivered(s, t) ==
  pc[t] = "recv_ret" /\ r[t] = 0 /\ ndeliv[t] = 1 /\ delivered[t].from = s

\* t has been resumed from ipc_recv with the value s sent.
C12_Resumed(s, t) ==
  /\ pc[t] = "recv_done" /\ r[t] = 0
  /\ delivered[t].from = s
  /\ ToUint32(retval[t]) = delivered[t].val
  /\ from_env_store[t] = <<s>>

\* C12 as stated: under a fair scheduler, once the target has a receive
\* posted, an ipc_send to it that meets no fatal error returns, whoever else
\* is sending to the same target.
C12_SendLivenessAnySender ==
  \A s \in Senders : \A t \in Receivers \ {s} :
    C12_Pending(s, t) ~> C12_Ended(s)

\* C12: under a fair scheduler, once the target has a receive posted, an
\* ipc_send to it returns or ends in a fatal error unless another sender's
\* delivery consumes that receive first; and a receiver into whose mailbox a
\* sender has delivered is resumed with the value that sender sent.
C12_SendLiveness ==
  \A s \in Senders : \A t \in Receivers \ {s} :
    /\ C12_Pending(s, t) ~> (C12_Ended(s) \/ C12_Taken(s, t))
    /\ C12_Delivered(s, t) ~> C12_Resumed(s, t)

\* A sender that went round the loop while its target was not receiving has
\* returned, and the target has been resumed with the value sent.
C12_Witness ==
  \E s \in Senders : \E t \in Receivers \ {s} :
    /\ pc[s] = "send_done" /\ sargs[s].to = t /\ nnotrecv[s] >= 1
    /\ sargs[s].val = Word - 1
    /\ C12_Resumed(s, t)
    /\ delivered[t].val = Word - 1

\* s is in the loop of an ipc_send to t whose latest attempt found t not
\* receiving.
C13_Retrying(s, t) ==
  /\ pc[s] \in {"send_try", "send_yield"}
  /\ sargs[s].to = t
  /\ r[s] = -E_IPC_NOT_RECV

\* An attempt to deliver to t returns NotReceiving: t exists and has no
\* receive posted.
C13_NotReceiving(t) == env_status[t] # "free" /\ ~env_ipc_recving[t]

\* C13: from any point of an ipc_send to a target that never posts a receive
\* again, so that every attempt returns NotReceiving, the call never returns
\* and never panics, and it makes a delivery attempt and a yield again and
\* again for ever, however many it has made.
C13_IndefiniteRetry ==
  \A s \in Senders : \A t \in Receivers \ {s} :
    [](C13_Retrying(s, t) /\ [](C13_NotReceiving(t))
         => /\ [](C13_Retrying(s, t))
            /\ []<>(pc[s] = "send_try")
            /\ []<>(pc[s] = "send_yield"))

\* A sender is still in the loop after more attempts than the history
\* counters can tell apart, every one of which found the target not receiving.
C13_Witness ==
  \E s \in Senders : \E t \in Receivers \ {s} :
    /\ C13_Retrying(s, t) /\ pc[s] = "send_try"
    /\ ntry[s] = MaxTries /\ nnotrecv[s] = MaxTries /\ nyield[s] = MaxTries
    /\ C13_NotReceiving(t)

\* The frame pointers met from f by following saved frame pointers, up to n.
RECURSIVE FrameChain(_, _)
FrameChain(f, n) ==
  IF f = 0 \/ n = 0 THEN <<>> ELSE <<f>> \o FrameChain(mem[f], n - 1)

\* The chain from f ends at saved frame pointer 0 within n frames.
RECURSIVE EndsAtZero(_, _)
EndsAtZero(f, n) == f = 0 \/ (n > 0 /\ EndsAtZero(mem[f], n - 1))

WellFormed(f) == EndsAtZero(f, Cardinality(FrameAddrs))
Chain(f) == FrameChain(f, MaxOut)

\* C14: for a well-formed stack whose chain of frame pointers ends at 0, the
\* descriptors printed so far are the first frames of the chain in order,
\* innermost first, each with the five words stored at its frame pointer
\* + 8, + 12, + 16, + 20 and + 24; and when the backtrace has returned there
\* is exactly one descriptor per frame of the chain and the frame pointer is 0.
C14_UnwinderCorrectness ==
  (mon \in {"loop", "done"} /\ WellFormed(ebp0)) =>
    /\ Len(out) <= Len(Chain(ebp0))
    /\ \A i \in 1 .. Len(out) :
         /\ out[i].ebp = Chain(ebp0)[i]
         /\ out[i].args = <<mem[Chain(ebp0)[i] + 8], mem[Chain(ebp0)[i] + 12],
                            mem[Chain(ebp0)[i] + 16], mem[Chain(ebp0)[i] + 20],
                            mem[Chain(ebp0)[i] + 24]>>
    /\ mon = "done" => Len(out) = Len(Chain(ebp0)) /\ ebp = 0

\* The backtrace of the chain 32 -> 48 -> 80 -> 0 has returned with three
\* descriptors.
C14_Witness ==
  /\ mon = "done" /\ ebp0 = 32
  /\ mem[32] = 48 /\ mem[48] = 80 /\ mem[80] = 0
  /\ Len(out) = 3

\* C15: the walk stops exactly when the frame pointer is 0: it has returned
\* only with frame pointer 0, prints nothing more once the frame pointer is
\* 0, prints no descriptor for frame pointer 0 and none at all when it
\* starts from 0; and over a chain that ends at 0 it does return, with one
\* descriptor per frame.
C15_UnwinderTermination ==
  /\ [](mon = "done" => ebp = 0)
  /\ [](\A i \in 1 .. Len(out) : out[i].ebp # 0)
  /\ [](mon = "done" /\ ebp0 = 0 => out = <<>>)
  /\ [][mon = "loop" /\ ebp = 0 => out' = out /\ mon' = "done"]_vars
  /\ (mon = "loop" /\ WellFormed(ebp0)) ~>
       (mon = "done" /\ Len(out) = Len(Chain(ebp0)))

\* A backtrace started at frame pointer 0 has returned with nothing printed,
\* after one over a chain of two frames had returned.
C15_Witness ==
  /\ mon = "done" /\ ebp0 = 0 /\ out = <<>>
  /\ prev.ran /\ Len(prev.out) = 2 /\ WellFormed(prev.start)

\* C16: no step of the backtrace writes the stack or changes the resolver,
\* and a backtrace that has returned after starting from the frame pointer
\* the previous one started from has printed the same descriptors.
C16_UnwinderRestartable ==
  [][/\ mem' = mem
     /\ known' = known
     /\ (mon' = "done" /\ prev'.ran /\ prev'.start = ebp0') => out' = prev'.out]_vars

\* A second backtrace from the start of the first has returned, over a chain
\* of three frames.
C16_Witness ==
  /\ mon = "done" /\ prev.ran /\ prev.start = ebp0
  /\ Len(prev.out) = 3 /\ Len(out) = 3

\* C17: a frame whose return address the resolver does not know is printed
\* with the placeholder, and the frames printed and their order are those of
\* the chain of saved frame pointers whatever the resolver knows: after each
\* descriptor the walk is at the frame saved in that descriptor's frame.
C17_UnknownNotAnError ==
  /\ \A i \in 1 .. Len(out) :
       /\ out[i].eip \notin known =>
            /\ out[i].file = "<unknown>" /\ out[i].fn = "<unknown>"
            /\ out[i].line = 0 /\ out[i].off = 0
       /\ out[i].ebp = Chain(ebp0)[i]
       /\ IF i < Len(out)
          THEN out[i + 1].ebp = mem[out[i].ebp]
          ELSE mon = "loop" => ebp = mem[out[i].ebp]
  /\ mon = "done" => Len(out) = Len(Chain(ebp0))

\* A backtrace of three frames has returned whose first return address the
\* resolver does not know and whose second it does.
C17_Witness ==
  /\ mon = "done" /\ Len(out) = 3
  /\ out[1].eip \notin known /\ out[1].file = "<unknown>"
  /\ out[2].eip \in known /\ out[2].file # "<unknown>"

\* C19: the return address in every descriptor, the first included, is the
\* word at its frame pointer + 4; the location and the offset printed with it
\* are the resolver's for that address; and the address read_eip() returned,
\* which eip holds until the first frame is read, is in no descriptor.
C19_ReturnAddressFromFrame ==
  /\ \A i \in 1 .. Len(out) :
       /\ out[i].eip = mem[out[i].ebp + 4]
       /\ out[i].eip # CallerPc
       /\ out[i].file = debuginfo_eip(mem[out[i].ebp + 4]).eip_file
       /\ out[i].line = debuginfo_eip(mem[out[i].ebp + 4]).eip_line
       /\ out[i].fn = debuginfo_eip(mem[out[i].ebp + 4]).eip_fn_name
       /\ out[i].off =
            (mem[out[i].ebp + 4] - debuginfo_eip(mem[out[i].ebp + 4]).eip_fn_addr) % Word
  /\ (mon = "loop" /\ out = <<>>) => eip = CallerPc
  /\ out # <<>> => eip = out[Len(out)].eip

\* Two descriptors are out, the first with a resolved return address at
\* offset 40 of its function, the second with another return address.
C19_Witness ==
  /\ Len(out) >= 2
  /\ out[1].eip \in known /\ out[1].eip = 1000 /\ out[1].off = 40
  /\ out[2].eip = 2020

====
